---- MODULE Spec2Model ----
(***************************************************************************)
(* The NDN prefix hash table of src/antlr/actual/ndn/ndn.c: a two-choice   *)
(* bucket index (ht_index) whose slots point into an append-only byte log  *)
(* (ht_log, log_head).  The operations are ndn_contains, ndn_ht_insert and *)
(* one iteration of the URL loop of ndn_init.                              *)
(*                                                                         *)
(* C arrays are 0-based; a url is a sequence of bytes, so url[i] of the C  *)
(* code is url[i + 1] here.  A failed assert() ends the process: aborted   *)
(* becomes the source line of the assert (0 while the process runs) and no *)
(* operation runs afterwards.                                              *)
(*                                                                         *)
(* Spec runs the operations one after the other, as the single writer of   *)
(* the build phase does.  SpecConc builds the table with ndn_init and then *)
(* lets reader processes run ndn_contains concurrently, one slot check or  *)
(* one log write per step.  SpecStep follows the calls of the one writer   *)
(* statement by statement.  SpecOrd makes sequences of inserts.             *)
(*                                                                         *)
(* SpecQ is the other program of the repository, the GPU master of         *)
(* src/l2fwd/master.cu: the loop of master_gpu over the worker/master      *)
(* queues (wmq) with its local variables (ms), next to the workers that    *)
(* fill the queues.                                                        *)
(***************************************************************************)
EXTENDS Integers, Sequences, FiniteSets, TLC

VARIABLES ht_index, ht_log, log_head, call, ret, aborted, phase, rd, wr, hist,
          wmq, ms

vars ==
    <<ht_index, ht_log, log_head, call, ret, aborted, phase, rd, wr, hist,
      wmq, ms>>

(***************************************************************************)
(* Sizes.  NDN_SLOTS stands for the 8 slots of a bucket and OffsetBits for *)
(* the 48 offset bits of a slot; both are scaled down.  The NDN_ constants *)
(* come from ndn.h.                                                        *)
(***************************************************************************)
NDN_SLOTS == 2

NumReaders == 2

OffsetBits == 6

NDN_NUM_BKT == 2

NDN_NUM_BKT_ == NDN_NUM_BKT - 1

NDN_MAX_URL_LENGTH == 6

NDN_LOG_HEADROOM == 9

NDN_LOG_CAP == 26

NDN_MAX_ETHPORTS == 16

SLASH == 47

(***************************************************************************)
(* Integer helpers of the C expressions.                                   *)
(***************************************************************************)
RECURSIVE Pow2(_)
Pow2(n) == IF n = 0 THEN 1 ELSE 2 * Pow2(n - 1)

RECURSIVE BitXor(_, _)
BitXor(x, y) ==
    IF x = 0 THEN y
    ELSE IF y = 0 THEN x
    ELSE ((x + y) % 2) + 2 * BitXor(x \div 2, y \div 2)

RECURSIVE BitAnd(_, _)
BitAnd(x, y) ==
    IF x = 0 \/ y = 0 THEN 0
    ELSE ((x % 2) * (y % 2)) + 2 * BitAnd(x \div 2, y \div 2)

\* (uint8_t) v
ToU8(v) == v % 256

\* (uint16_t) c for a char c (signed char: bytes >= 0x80 sign-extend)
ToU16(c) == IF c >= 128 THEN c + 65280 ELSE c

\* The 64-bit hash of len bytes of s, kept to 16 bits.
RECURSIVE CityHash64(_, _)
CityHash64(s, len) ==
    IF len = 0 THEN 0 ELSE (31 * CityHash64(s, len - 1) + s[len]) % 65536

\* The two bytes of a uint16_t tag as (char *) &tag reads them.
TagBytes(tag) == <<tag % 256, tag \div 256>>

\* Mutant: the tag is left out of the slot.
MakeSlot_NoTag(tag, insert_offset) == insert_offset

\* Slot packing: ((ULL) tag << 48) | offset, and the ndn.h accessors.
MakeSlot(tag, insert_offset) == tag * Pow2(OffsetBits) + insert_offset

NDN_SLOT_TO_OFFSET(s) == s % Pow2(OffsetBits)

NDN_SLOT_TO_TAG(s) == s \div Pow2(OffsetBits)

\* uint16_t tag = (uint16_t) url[len - 2]
UrlTag(url, len) == ToU16(url[len - 1])

\* The two candidate buckets, in the order they are tested.
Bkt1(url, len) == BitAnd(CityHash64(url, len), NDN_NUM_BKT_)

Bkt2(url, len) ==
    BitAnd(BitXor(Bkt1(url, len), CityHash64(TagBytes(UrlTag(url, len)), 2)),
           NDN_NUM_BKT_)

\* <<bkt_1, bkt_2>>
Buckets(url, len) == <<Bkt1(url, len), Bkt2(url, len)>>

\* Position n = 1 .. 2 * NDN_SLOTS of the nested bucket/slot loops.
ProbeBkt(bkts, n) == IF n <= NDN_SLOTS THEN bkts[1] ELSE bkts[2]

ProbeIdx(n) == (n - 1) % NDN_SLOTS

Probes == 1 .. (2 * NDN_SLOTS)

SetMin(S) == CHOOSE x \in S : \A y \in S : x <= y

\* The hash table as one value: struct ndn_ht.
HT == [ht_index |-> ht_index, ht_log |-> ht_log, log_head |-> log_head]

(***************************************************************************)
(* ndn_contains: scan the two candidate buckets for a slot with a matching *)
(* tag whose log record has the same length and bytes; upgrade the record  *)
(* to terminal when asked to.  The result is the return value, the table   *)
(* afterwards and whether an assert failed.                                *)
(***************************************************************************)
SlotAt(bkts, n, ht) == ht.ht_index[ProbeBkt(bkts, n)][ProbeIdx(n)]

\* Mutant: the key bytes are not compared.
SlotMatches_NoMemcmp(url, len, tag, bkts, n, ht) ==
    LET slot_offset == NDN_SLOT_TO_OFFSET(SlotAt(bkts, n, ht))
        slot_tag == NDN_SLOT_TO_TAG(SlotAt(bkts, n, ht))
    IN  /\ slot_offset # 0
        /\ slot_tag = tag
        /\ ht.ht_log[slot_offset] = ToU8(len)

\* slot_offset != 0 && slot_tag == tag && prefix_len == (uint8_t) len &&
\* memcmp(url, &log_ptr[3], len) == 0
SlotMatches(url, len, tag, bkts, n, ht) ==
    LET slot_offset == NDN_SLOT_TO_OFFSET(SlotAt(bkts, n, ht))
        slot_tag == NDN_SLOT_TO_TAG(SlotAt(bkts, n, ht))
    IN  /\ slot_offset # 0
        /\ slot_tag = tag
        /\ ht.ht_log[slot_offset] = ToU8(len)
        /\ \A j \in 0 .. (len - 1) : url[j + 1] = ht.ht_log[slot_offset + 3 + j]

\* if(...) { log_ptr[1] = 1; log_ptr[2] = dst_port_id; }
\* Mutant: the caller's is_terminal is not tested.
ShouldUpgrade_AnyCall(flag, is_terminal) == flag = 0

\* log_ptr[1] == 0 && is_terminal == 1
ShouldUpgrade(flag, is_terminal) == flag = 0 /\ is_terminal = 1

\* Mutant: the upgrade does not test log_ptr[1] == 0.
UpgradeLog_NoLatch(ht_log_, off, is_terminal, dst_port_id) ==
    IF is_terminal = 1
    THEN [ht_log_ EXCEPT ![off + 1] = 1, ![off + 2] = ToU8(dst_port_id)]
    ELSE ht_log_

\* Mutant: the port is written one byte too far, into the key.
UpgradeLog_WrongByte(ht_log_, off, is_terminal, dst_port_id) ==
    IF ShouldUpgrade(ht_log_[off + 1], is_terminal)
    THEN [ht_log_ EXCEPT ![off + 1] = 1, ![off + 3] = ToU8(dst_port_id)]
    ELSE ht_log_

\* Mutant: the metadata of the call is written over that of the record.
UpgradeLog_Overwrite(ht_log_, off, is_terminal, dst_port_id) ==
    [ht_log_ EXCEPT ![off + 1] = is_terminal, ![off + 2] = ToU8(dst_port_id)]

UpgradeLog(ht_log_, off, is_terminal, dst_port_id) ==
    IF ShouldUpgrade(ht_log_[off + 1], is_terminal)
    THEN [ht_log_ EXCEPT ![off + 1] = 1, ![off + 2] = ToU8(dst_port_id)]
    ELSE ht_log_

\* Mutant: only the primary bucket is scanned.
ndn_contains_Bkt1Only(url, len, is_terminal, dst_port_id, ht) ==
    IF ~(len >= 2)
    THEN [ret |-> 0, ht |-> ht, abort |-> 33]
    ELSE LET tag == UrlTag(url, len)
             bkts == Buckets(url, len)
             hits == {n \in 1 .. NDN_SLOTS : SlotMatches(url, len, tag, bkts, n, ht)}
         IN  IF hits = {}
             THEN [ret |-> 0, ht |-> ht, abort |-> 0]
             ELSE LET off == NDN_SLOT_TO_OFFSET(SlotAt(bkts, SetMin(hits), ht))
                  IN  [ret |-> 1,
                       ht |-> [ht EXCEPT !.ht_log =
                                 UpgradeLog(ht.ht_log, off, is_terminal, dst_port_id)],
                       abort |-> 0]

ndn_contains(url, len, is_terminal, dst_port_id, ht) ==
    IF ~(len >= 2)
    THEN [ret |-> 0, ht |-> ht, abort |-> 33]
    ELSE LET tag == UrlTag(url, len)
             bkts == Buckets(url, len)
             hits == {n \in Probes : SlotMatches(url, len, tag, bkts, n, ht)}
         IN  IF hits = {}
             THEN [ret |-> 0, ht |-> ht, abort |-> 0]
             ELSE LET off == NDN_SLOT_TO_OFFSET(SlotAt(bkts, SetMin(hits), ht))
                  IN  [ret |-> 1,
                       ht |-> [ht EXCEPT !.ht_log =
                                 UpgradeLog(ht.ht_log, off, is_terminal, dst_port_id)],
                       abort |-> 0]

(***************************************************************************)
(* ndn_ht_insert: the asserts, the lookup-with-upgrade, then the first     *)
(* empty slot of the two candidate buckets.                                *)
(***************************************************************************)
\* The first assert of lines 89-93 that fails, 0 if none does.
InsertAsserts(len, is_terminal, dst_port_id) ==
    IF ~(len >= 2) THEN 89
    ELSE IF ~(is_terminal = 0 \/ is_terminal = 1) THEN 91
    ELSE IF ~(dst_port_id < NDN_MAX_ETHPORTS) THEN 92
    ELSE IF ~(len <= NDN_MAX_URL_LENGTH) THEN 93
    ELSE 0

\* Mutant: the slot gets the last byte of the key as its tag.
WriteRecord_LastByteTag(url, len, is_terminal, dst_port_id, bkts, n, ht) ==
    LET insert_offset == ht.log_head
        b == ProbeBkt(bkts, n)
        i == ProbeIdx(n)
    IN  [ht_index |-> [ht.ht_index EXCEPT ![b][i] =
                          MakeSlot(ToU16(url[len]), insert_offset)],
         log_head |-> ht.log_head + (3 + len),
         ht_log   |-> [a \in DOMAIN ht.ht_log |->
                         IF a = insert_offset THEN ToU8(len)
                         ELSE IF a = insert_offset + 1 THEN is_terminal
                         ELSE IF a = insert_offset + 2 THEN ToU8(dst_port_id)
                         ELSE IF a >= insert_offset + 3 /\ a < insert_offset + 3 + len
                              THEN url[a - (insert_offset + 3) + 1]
                         ELSE ht.ht_log[a]]]

\* Mutant: log_head advances by len, without the 3 bytes of metadata.
WriteRecord_LenOnly(url, len, is_terminal, dst_port_id, bkts, n, ht) ==
    LET insert_offset == ht.log_head
        b == ProbeBkt(bkts, n)
        i == ProbeIdx(n)
    IN  [ht_index |-> [ht.ht_index EXCEPT ![b][i] =
                          MakeSlot(UrlTag(url, len), insert_offset)],
         log_head |-> ht.log_head + len,
         ht_log   |-> [a \in DOMAIN ht.ht_log |->
                         IF a = insert_offset THEN ToU8(len)
                         ELSE IF a = insert_offset + 1 THEN is_terminal
                         ELSE IF a = insert_offset + 2 THEN ToU8(dst_port_id)
                         ELSE IF a >= insert_offset + 3 /\ a < insert_offset + 3 + len
                              THEN url[a - (insert_offset + 3) + 1]
                         ELSE ht.ht_log[a]]]

\* Mutant: the slot is written after the log_head advance and points to the
\* new log_head.
WriteRecord_SlotAfterAdvance(url, len, is_terminal, dst_port_id, bkts, n, ht) ==
    LET insert_offset == ht.log_head
        b == ProbeBkt(bkts, n)
        i == ProbeIdx(n)
    IN  [ht_index |-> [ht.ht_index EXCEPT ![b][i] =
                          MakeSlot(UrlTag(url, len), insert_offset + (3 + len))],
         log_head |-> ht.log_head + (3 + len),
         ht_log   |-> [a \in DOMAIN ht.ht_log |->
                         IF a = insert_offset THEN ToU8(len)
                         ELSE IF a = insert_offset + 1 THEN is_terminal
                         ELSE IF a = insert_offset + 2 THEN ToU8(dst_port_id)
                         ELSE IF a >= insert_offset + 3 /\ a < insert_offset + 3 + len
                              THEN url[a - (insert_offset + 3) + 1]
                         ELSE ht.ht_log[a]]]

\* The slot write, the log_head advance and the record bytes.
WriteRecord(url, len, is_terminal, dst_port_id, bkts, n, ht) ==
    LET insert_offset == ht.log_head
        b == ProbeBkt(bkts, n)
        i == ProbeIdx(n)
    IN  [ht_index |-> [ht.ht_index EXCEPT ![b][i] =
                          MakeSlot(UrlTag(url, len), insert_offset)],
         log_head |-> ht.log_head + (3 + len),
         ht_log   |-> [a \in DOMAIN ht.ht_log |->
                         IF a = insert_offset THEN ToU8(len)
                         ELSE IF a = insert_offset + 1 THEN is_terminal
                         ELSE IF a = insert_offset + 2 THEN ToU8(dst_port_id)
                         ELSE IF a >= insert_offset + 3 /\ a < insert_offset + 3 + len
                              THEN url[a - (insert_offset + 3) + 1]
                         ELSE ht.ht_log[a]]]

\* Mutant: every slot passes the test slot_offset == 0.
EmptyProbes_All(bkts, ht) == Probes

\* The probes whose slot passes the test slot_offset == 0 of line 124.
EmptyProbes(bkts, ht) ==
    {n \in Probes : NDN_SLOT_TO_OFFSET(SlotAt(bkts, n, ht)) = 0}

\* Mutant: no assert on the log capacity before the append.
ndn_ht_insert_NoCapCheck(url, len, is_terminal, dst_port_id, ht) ==
    IF InsertAsserts(len, is_terminal, dst_port_id) # 0
    THEN [ret |-> 0, ht |-> ht, abort |-> InsertAsserts(len, is_terminal, dst_port_id)]
    ELSE LET c == ndn_contains(url, len, is_terminal, dst_port_id, ht)
             bkts == Buckets(url, len)
             empty == EmptyProbes(bkts, ht)
         IN  IF c.ret # 0
             THEN [ret |-> 0, ht |-> c.ht, abort |-> 0]
             ELSE IF empty = {}
             THEN [ret |-> -1, ht |-> ht, abort |-> 0]
             ELSE [ret |-> 0,
                   ht |-> WriteRecord(url, len, is_terminal, dst_port_id,
                                      bkts, SetMin(empty), ht),
                   abort |-> 0]

\* Mutant: with both buckets full the first slot of the primary bucket is
\* overwritten.
ndn_ht_insert_Evict(url, len, is_terminal, dst_port_id, ht) ==
    IF InsertAsserts(len, is_terminal, dst_port_id) # 0
    THEN [ret |-> 0, ht |-> ht, abort |-> InsertAsserts(len, is_terminal, dst_port_id)]
    ELSE LET c == ndn_contains(url, len, is_terminal, dst_port_id, ht)
             bkts == Buckets(url, len)
             empty == EmptyProbes(bkts, ht)
         IN  IF c.ret # 0
             THEN [ret |-> 0, ht |-> c.ht, abort |-> 0]
             ELSE IF ~(ht.log_head + NDN_LOG_HEADROOM < NDN_LOG_CAP)
             THEN [ret |-> 0, ht |-> ht, abort |-> 126]
             ELSE [ret |-> 0,
                   ht |-> WriteRecord(url, len, is_terminal, dst_port_id, bkts,
                                      IF empty = {} THEN 1 ELSE SetMin(empty), ht),
                   abort |-> 0]

\* Mutant: the lookup before the insert never upgrades.
ndn_ht_insert_NoUpgrade(url, len, is_terminal, dst_port_id, ht) ==
    IF InsertAsserts(len, is_terminal, dst_port_id) # 0
    THEN [ret |-> 0, ht |-> ht, abort |-> InsertAsserts(len, is_terminal, dst_port_id)]
    ELSE LET c == ndn_contains(url, len, 0, dst_port_id, ht)
             bkts == Buckets(url, len)
             empty == EmptyProbes(bkts, ht)
         IN  IF c.ret # 0
             THEN [ret |-> 0, ht |-> c.ht, abort |-> 0]
             ELSE IF empty = {}
             THEN [ret |-> -1, ht |-> ht, abort |-> 0]
             ELSE IF ~(ht.log_head + NDN_LOG_HEADROOM < NDN_LOG_CAP)
             THEN [ret |-> 0, ht |-> ht, abort |-> 126]
             ELSE [ret |-> 0,
                   ht |-> WriteRecord(url, len, is_terminal, dst_port_id,
                                      bkts, SetMin(empty), ht),
                   abort |-> 0]

\* Mutant: no lookup before the insert.
ndn_ht_insert_NoDedup(url, len, is_terminal, dst_port_id, ht) ==
    IF InsertAsserts(len, is_terminal, dst_port_id) # 0
    THEN [ret |-> 0, ht |-> ht, abort |-> InsertAsserts(len, is_terminal, dst_port_id)]
    ELSE LET bkts == Buckets(url, len)
             empty == EmptyProbes(bkts, ht)
         IN  IF empty = {}
             THEN [ret |-> -1, ht |-> ht, abort |-> 0]
             ELSE IF ~(ht.log_head + NDN_LOG_HEADROOM < NDN_LOG_CAP)
             THEN [ret |-> 0, ht |-> ht, abort |-> 126]
             ELSE [ret |-> 0,
                   ht |-> WriteRecord(url, len, is_terminal, dst_port_id,
                                      bkts, SetMin(empty), ht),
                   abort |-> 0]

\* Mutant: the last empty slot of the scan is taken, not the first.
ndn_ht_insert_LastEmpty(url, len, is_terminal, dst_port_id, ht) ==
    IF InsertAsserts(len, is_terminal, dst_port_id) # 0
    THEN [ret |-> 0, ht |-> ht, abort |-> InsertAsserts(len, is_terminal, dst_port_id)]
    ELSE LET c == ndn_contains(url, len, is_terminal, dst_port_id, ht)
             bkts == Buckets(url, len)
             empty == EmptyProbes(bkts, ht)
         IN  IF c.ret # 0
             THEN [ret |-> 0, ht |-> c.ht, abort |-> 0]
             ELSE IF empty = {}
             THEN [ret |-> -1, ht |-> ht, abort |-> 0]
             ELSE IF ~(ht.log_head + NDN_LOG_HEADROOM < NDN_LOG_CAP)
             THEN [ret |-> 0, ht |-> ht, abort |-> 126]
             ELSE [ret |-> 0,
                   ht |-> WriteRecord(url, len, is_terminal, dst_port_id, bkts,
                                      CHOOSE n \in empty : \A m \in empty : m <= n, ht),
                   abort |-> 0]

ndn_ht_insert(url, len, is_terminal, dst_port_id, ht) ==
    IF InsertAsserts(len, is_terminal, dst_port_id) # 0
    THEN [ret |-> 0, ht |-> ht, abort |-> InsertAsserts(len, is_terminal, dst_port_id)]
    ELSE LET c == ndn_contains(url, len, is_terminal, dst_port_id, ht)
             bkts == Buckets(url, len)
             empty == EmptyProbes(bkts, ht)
         IN  IF c.ret # 0
             THEN [ret |-> 0, ht |-> c.ht, abort |-> 0]
             ELSE IF empty = {}
             THEN [ret |-> -1, ht |-> ht, abort |-> 0]
             ELSE IF ~(ht.log_head + NDN_LOG_HEADROOM < NDN_LOG_CAP)
             THEN [ret |-> 0, ht |-> ht, abort |-> 126]
             ELSE [ret |-> 0,
                   ht |-> WriteRecord(url, len, is_terminal, dst_port_id,
                                      bkts, SetMin(empty), ht),
                   abort |-> 0]

(***************************************************************************)
(* One iteration of the while(1) loop of ndn_init for a url read from the  *)
(* file: every prefix ending in '/' is inserted non-terminal, the url      *)
(* itself (with '/' appended) terminal.  nb_fail counts this url's failed  *)
(* inserts.  url is the zero-filled buffer char url[NDN_MAX_URL_LENGTH].   *)
(***************************************************************************)
UrlBuf(w) == [j \in 1 .. NDN_MAX_URL_LENGTH |-> IF j <= Len(w) THEN w[j] ELSE 0]

\* Mutant: the proper prefixes are inserted as terminal too.
RECURSIVE ndn_init_for_AllTerminal(_, _, _, _, _)
ndn_init_for_AllTerminal(url, i, dst_port_id, ht, nb_fail) ==
    IF ~(i < NDN_MAX_URL_LENGTH)
    THEN [nb_fail |-> nb_fail, ht |-> ht, abort |-> 0]
    ELSE IF url[i + 1] = SLASH
    THEN LET r == ndn_ht_insert(url, i + 1, 1, dst_port_id, ht)
         IN  IF r.abort # 0
             THEN [nb_fail |-> nb_fail, ht |-> r.ht, abort |-> r.abort]
             ELSE ndn_init_for_AllTerminal(url, i + 1, dst_port_id, r.ht,
                               IF r.ret # 0 THEN nb_fail + 1 ELSE nb_fail)
    ELSE IF url[i + 1] = 0
    THEN LET r == ndn_ht_insert([url EXCEPT ![i + 1] = SLASH], i + 1, 1,
                                dst_port_id, ht)
         IN  [nb_fail |-> IF r.ret # 0 THEN nb_fail + 1 ELSE nb_fail,
              ht |-> r.ht, abort |-> r.abort]
    ELSE ndn_init_for_AllTerminal(url, i + 1, dst_port_id, ht, nb_fail)

RECURSIVE ndn_init_for(_, _, _, _, _)
ndn_init_for(url, i, dst_port_id, ht, nb_fail) ==
    IF ~(i < NDN_MAX_URL_LENGTH)
    THEN [nb_fail |-> nb_fail, ht |-> ht, abort |-> 0]
    ELSE IF url[i + 1] = SLASH
    THEN LET r == ndn_ht_insert(url, i + 1, 0, -1, ht)
         IN  IF r.abort # 0
             THEN [nb_fail |-> nb_fail, ht |-> r.ht, abort |-> r.abort]
             ELSE ndn_init_for(url, i + 1, dst_port_id, r.ht,
                               IF r.ret # 0 THEN nb_fail + 1 ELSE nb_fail)
    ELSE IF url[i + 1] = 0
    THEN LET r == ndn_ht_insert([url EXCEPT ![i + 1] = SLASH], i + 1, 1,
                                dst_port_id, ht)
         IN  [nb_fail |-> IF r.ret # 0 THEN nb_fail + 1 ELSE nb_fail,
              ht |-> r.ht, abort |-> r.abort]
    ELSE ndn_init_for(url, i + 1, dst_port_id, ht, nb_fail)

\* ndn_num_components: the number of '/' of the word, plus one.
ndn_num_components(w) == Cardinality({k \in 1 .. Len(w) : w[k] = SLASH}) + 1

ndn_init_url(w, dst_port_id, ht) == ndn_init_for(UrlBuf(w), 0, dst_port_id, ht, 0)

(***************************************************************************)
(* The inputs.  Bytes: 'a' = 97, 'b' = 98, 'c' = 99, '/' = 47.             *)
(***************************************************************************)
\* a/  b/  a/b/  a/b/c/
ValidUrls ==
    { <<97, 47>>, <<98, 47>>, <<97, 47, 98, 47>>, <<97, 47, 98, 47, 99, 47>> }

\* The urls that calls make terminal: a/b/  a/b/c/
TermUrls == { <<97, 47, 98, 47>>, <<97, 47, 98, 47, 99, 47>> }

\* "/" is too short, "ab" has no terminator, "a/b/c//" is too long.
ShortUrl == <<47>>

OpenUrl == <<97, 98>>

LongUrl == <<97, 47, 98, 47, 99, 47, 47>>

InvalidUrls == {ShortUrl, OpenUrl, LongUrl}

Urls == ValidUrls \cup InvalidUrls

Ports == {5, 9}

\* The calls <<url, is_terminal, dst_port_id>> of ndn_ht_insert.
InsertCalls ==
    {<<u, 0, -1>> : u \in Urls}
        \cup {<<u, 1, p>> : u \in TermUrls, p \in Ports}
        \cup {<<u, 1, NDN_MAX_ETHPORTS>> : u \in {<<97, 47>>}}

\* The calls <<url, is_terminal, dst_port_id>> of ndn_contains.
LookupCalls ==
    {<<u, 0, -1>> : u \in ValidUrls \cup {ShortUrl}}
        \cup {<<u, 1, p>> : u \in TermUrls, p \in Ports}

\* The words of the urls file: a/b, a/b/c, /a
Words == { <<97, 47, 98>>, <<97, 47, 98, 47, 99>>, <<47, 97>> }

(***************************************************************************)
(* The state machine.  phase is "write" while the single writer builds the *)
(* table and "read" once the readers run; rd[r] is where reader r stands   *)
(* in its ndn_contains call, wr where the writer stands when its call is   *)
(* followed statement by statement (SpecStep), hist the ndn_ht_insert      *)
(* calls made so far when their order is what matters (SpecOrd).           *)
(***************************************************************************)
Readers == 1 .. NumReaders

\* The calls <<url, is_terminal, dst_port_id>> of the readers: a/b/ and b/
\* without upgrade, a/b/ with an upgrade to port 5 or 9.
ReaderCalls ==
    { <<<<97, 47, 98, 47>>, 0, -1>>, <<<<98, 47>>, 0, -1>>,
      <<<<97, 47, 98, 47>>, 1, 5>>, <<<<97, 47, 98, 47>>, 1, 9>> }

RdIdle ==
    [pc |-> "idle", url |-> <<>>, is_terminal |-> 0, dst_port_id |-> 0,
     n |-> 0, res |-> 0]

(***************************************************************************)
(* The worker/master queues.  WM_QUEUE_CAP (16384), WM_MAX_LCORE (16) and  *)
(* the width of int (32 bits) are scaled down; head, tail, prev_head and   *)
(* new_head are long long and do not overflow here.  The request of a      *)
(* worker for queue index i is the address ReqVal(w, i).                   *)
(***************************************************************************)
WM_QUEUE_CAP == 2

WM_QUEUE_CAP_ == WM_QUEUE_CAP - 1

WM_MAX_LCORE == 2

IntBits == 3

INT_MAX == Pow2(IntBits - 1) - 1

INT_MIN == 0 - Pow2(IntBits - 1)

\* (int) v for a long long v
ToInt(v) == ((v - INT_MIN) % Pow2(IntBits)) + INT_MIN

\* The worker stops after MaxHead requests.
MaxHead == 5

\* worker_lcores and num_workers of main(): every lcore is an active worker.
Lcores == 0 .. (WM_MAX_LCORE - 1)

num_workers == WM_MAX_LCORE

worker_lcores == [w_i \in 0 .. (num_workers - 1) |-> w_i]

\* h_reqs and h_resps hold WM_QUEUE_CAP * WM_MAX_LCORE ints.
BufSize == WM_QUEUE_CAP * WM_MAX_LCORE

ReqVal(w, i) == 2 * i + w

WmqInit ==
    [head |-> 0, tail |-> 0,
     reqs |-> [q_i \in 0 .. WM_QUEUE_CAP_ |-> 0],
     resps |-> [q_i \in 0 .. WM_QUEUE_CAP_ |-> 0]]

\* The locals of master_gpu at its first pass of while(1).
MsInit ==
    [pc |-> "snap", w_i |-> 0, i |-> 0, nb_req |-> 0,
     prev_head |-> [w \in Lcores |-> 0], new_head |-> [w \in Lcores |-> 0],
     req_lo |-> [w \in Lcores |-> 0],
     h_reqs |-> [k \in 0 .. (BufSize - 1) |-> 0],
     h_resps |-> [k \in 0 .. (BufSize - 1) |-> 0]]

\* The writer between two calls.
WrIdle ==
    [pc |-> "idle", op |-> "none", url |-> <<>>, is_terminal |-> 0,
     dst_port_id |-> 0, n |-> 0, res |-> 0, insert_offset |-> 0,
     checks |-> 0, cmps |-> 0]

Init ==
    /\ ht_index = [b \in 0 .. (NDN_NUM_BKT - 1) |-> [i \in 0 .. (NDN_SLOTS - 1) |-> 0]]
    /\ ht_log = [a \in 0 .. (NDN_LOG_CAP - 1) |-> 0]
    /\ log_head = 1
    /\ call = [op |-> "new", url |-> <<>>, is_terminal |-> 0, dst_port_id |-> 0]
    /\ ret = 0
    /\ aborted = 0
    /\ phase = "write"
    /\ rd = [r \in Readers |-> RdIdle]
    /\ wr = WrIdle
    /\ hist = <<>>
    /\ wmq = [w \in Lcores |-> WmqInit]
    /\ ms = MsInit

Finish(r, retval) ==
    /\ ht_index' = r.ht.ht_index
    /\ ht_log' = r.ht.ht_log
    /\ log_head' = r.ht.log_head
    /\ ret' = retval
    /\ aborted' = r.abort
    /\ UNCHANGED <<phase, rd, wr, hist, wmq, ms>>

Insert(url, is_terminal, dst_port_id) ==
    /\ aborted = 0
    /\ phase = "write"
    /\ call' = [op |-> "insert", url |-> url, is_terminal |-> is_terminal,
                dst_port_id |-> dst_port_id]
    /\ LET r == ndn_ht_insert(url, Len(url), is_terminal, dst_port_id, HT)
       IN  Finish(r, r.ret)

Lookup(url, is_terminal, dst_port_id) ==
    /\ aborted = 0
    /\ phase = "write"
    /\ call' = [op |-> "contains", url |-> url, is_terminal |-> is_terminal,
                dst_port_id |-> dst_port_id]
    /\ LET r == ndn_contains(url, Len(url), is_terminal, dst_port_id, HT)
       IN  Finish(r, r.ret)

LoadUrl(w, dst_port_id) ==
    /\ aborted = 0
    /\ phase = "write"
    /\ call' = [op |-> "init", url |-> w, is_terminal |-> 1,
                dst_port_id |-> dst_port_id]
    /\ LET r == ndn_init_url(w, dst_port_id, HT)
       IN  Finish(r, r.nb_fail)

Next ==
    \/ \E c \in InsertCalls : Insert(c[1], c[2], c[3])
    \/ \E c \in LookupCalls : Lookup(c[1], c[2], c[3])
    \/ \E w \in Words, p \in Ports : LoadUrl(w, p)

Spec == Init /\ [][Next]_vars

(***************************************************************************)
(* The reader phase.  ndn_init has returned; each reader runs ndn_contains *)
(* on the shared table: the call, one step per slot of the two candidate   *)
(* buckets (lines 57-66), then, when the record is to be upgraded, the two *)
(* byte writes of lines 70 and 71.                                         *)
(***************************************************************************)
EndBuild ==
    /\ aborted = 0
    /\ phase = "write"
    /\ phase' = "read"
    /\ call' = [op |-> "read", url |-> <<>>, is_terminal |-> 0, dst_port_id |-> 0]
    /\ ret' = 0
    /\ UNCHANGED <<ht_index, ht_log, log_head, aborted, rd, wr, hist, wmq, ms>>

RdOffset(r) ==
    NDN_SLOT_TO_OFFSET(SlotAt(Buckets(rd[r].url, Len(rd[r].url)), rd[r].n, HT))

RdCall(r, c) ==
    /\ aborted = 0
    /\ phase = "read"
    /\ rd[r].pc = "idle"
    /\ IF ~(Len(c[1]) >= 2)
       THEN aborted' = 33 /\ rd' = rd
       ELSE /\ aborted' = aborted
            /\ rd' = [rd EXCEPT ![r] =
                        [pc |-> "scan", url |-> c[1], is_terminal |-> c[2],
                         dst_port_id |-> c[3], n |-> 1, res |-> 0]]
    /\ UNCHANGED <<ht_index, ht_log, log_head, call, ret, phase, wr, hist, wmq, ms>>

\* Mutant: the upgrade is synchronized; a reader does not start it while
\* another reader is between its test of log_ptr[1] and its two writes.
RdSlot_Locked(r) ==
    /\ aborted = 0
    /\ rd[r].pc = "scan"
    /\ LET url == rd[r].url
           len == Len(rd[r].url)
       IN  IF SlotMatches(url, len, UrlTag(url, len), Buckets(url, len), rd[r].n, HT)
           THEN IF /\ ShouldUpgrade(ht_log[RdOffset(r) + 1], rd[r].is_terminal)
                   /\ \A q \in Readers : rd[q].pc \notin {"set_terminal", "set_port"}
                THEN rd' = [rd EXCEPT ![r].pc = "set_terminal"]
                ELSE rd' = [rd EXCEPT ![r].pc = "done", ![r].res = 1]
           ELSE IF rd[r].n = 2 * NDN_SLOTS
                THEN rd' = [rd EXCEPT ![r].pc = "done", ![r].res = 0]
                ELSE rd' = [rd EXCEPT ![r].n = rd[r].n + 1]
    /\ UNCHANGED <<ht_index, ht_log, log_head, call, ret, aborted, phase, wr, hist, wmq, ms>>

\* One pass of the loop body of lines 57-77 at position n.
RdSlot(r) ==
    /\ aborted = 0
    /\ rd[r].pc = "scan"
    /\ LET url == rd[r].url
           len == Len(rd[r].url)
       IN  IF SlotMatches(url, len, UrlTag(url, len), Buckets(url, len), rd[r].n, HT)
           THEN IF ShouldUpgrade(ht_log[RdOffset(r) + 1], rd[r].is_terminal)
                THEN rd' = [rd EXCEPT ![r].pc = "set_terminal"]
                ELSE rd' = [rd EXCEPT ![r].pc = "done", ![r].res = 1]
           ELSE IF rd[r].n = 2 * NDN_SLOTS
                THEN rd' = [rd EXCEPT ![r].pc = "done", ![r].res = 0]
                ELSE rd' = [rd EXCEPT ![r].n = rd[r].n + 1]
    /\ UNCHANGED <<ht_index, ht_log, log_head, call, ret, aborted, phase, wr, hist, wmq, ms>>

\* log_ptr[1] = 1;
RdSetTerminal(r) ==
    /\ aborted = 0
    /\ rd[r].pc = "set_terminal"
    /\ ht_log' = [ht_log EXCEPT ![RdOffset(r) + 1] = 1]
    /\ rd' = [rd EXCEPT ![r].pc = "set_port"]
    /\ UNCHANGED <<ht_index, log_head, call, ret, aborted, phase, wr, hist, wmq, ms>>

\* log_ptr[2] = dst_port_id; return 1;
RdSetPort(r) ==
    /\ aborted = 0
    /\ rd[r].pc = "set_port"
    /\ ht_log' = [ht_log EXCEPT ![RdOffset(r) + 2] = ToU8(rd[r].dst_port_id)]
    /\ rd' = [rd EXCEPT ![r].pc = "done", ![r].res = 1]
    /\ UNCHANGED <<ht_index, log_head, call, ret, aborted, phase, wr, hist, wmq, ms>>

RdReturn(r) ==
    /\ aborted = 0
    /\ rd[r].pc = "done"
    /\ rd' = [rd EXCEPT ![r] = RdIdle]
    /\ UNCHANGED <<ht_index, ht_log, log_head, call, ret, aborted, phase, wr, hist, wmq, ms>>

NextConc ==
    \/ \E w \in Words, p \in Ports : LoadUrl(w, p)
    \/ \E c \in LookupCalls : Lookup(c[1], c[2], c[3])
    \/ EndBuild
    \/ \E r \in Readers, c \in ReaderCalls : RdCall(r, c)
    \/ \E r \in Readers : RdSlot(r)
    \/ \E r \in Readers : RdSetTerminal(r)
    \/ \E r \in Readers : RdSetPort(r)
    \/ \E r \in Readers : RdReturn(r)

SpecConc == Init /\ [][NextConc]_vars

(***************************************************************************)
(* The writer, statement by statement.  One call of ndn_contains or of     *)
(* ndn_ht_insert runs as a sequence of steps: the asserts, one step per    *)
(* slot checked by the lookup loop (lines 57-77), the two upgrade writes   *)
(* (lines 70, 71), one step per slot checked by the insert loop (lines     *)
(* 120-126), then the writes of lines 129, 132, 135, 136, 137 and 138 in   *)
(* the order of the source.  wr.checks counts the slots checked in the     *)
(* call and wr.cmps the memcmp calls of line 66.                           *)
(***************************************************************************)
\* a/b/  c/b/  e/b/ share the tag 'b', the length 4 and the one bucket that
\* is both their primary and their secondary bucket.
StepInsertCalls ==
    { << <<97, 47, 98, 47>>, 0, -1 >>, << <<97, 47, 98, 47>>, 1, 9 >>,
      << <<99, 47, 98, 47>>, 0, -1 >>, << <<101, 47, 98, 47>>, 1, 5 >>,
      << <<97, 47>>, 0, -1 >>, << <<97, 47, 98, 47, 99, 47>>, 0, -1 >>,
      << ShortUrl, 0, -1 >> }

StepLookupCalls ==
    { << <<101, 47, 98, 47>>, 0, -1 >>, << <<97, 47, 98, 47>>, 1, 5 >>,
      << ShortUrl, 0, -1 >> }

WrBkts == Buckets(wr.url, Len(wr.url))

WrSlotOffset == NDN_SLOT_TO_OFFSET(SlotAt(WrBkts, wr.n, HT))

\* The call: the asserts of lines 89-93 for ndn_ht_insert, then the assert
\* of line 33 of ndn_contains.
WrCall(op, c) ==
    /\ aborted = 0
    /\ phase = "write"
    /\ wr.pc = "idle"
    /\ call' = [op |-> op, url |-> c[1], is_terminal |-> c[2], dst_port_id |-> c[3]]
    /\ LET line == IF op = "insert" /\ InsertAsserts(Len(c[1]), c[2], c[3]) # 0
                   THEN InsertAsserts(Len(c[1]), c[2], c[3])
                   ELSE IF ~(Len(c[1]) >= 2) THEN 33 ELSE 0
       IN  IF line # 0
           THEN aborted' = line /\ wr' = wr
           ELSE /\ aborted' = aborted
                /\ wr' = [pc |-> "scan", op |-> op, url |-> c[1],
                          is_terminal |-> c[2], dst_port_id |-> c[3], n |-> 1,
                          res |-> 0, insert_offset |-> 0, checks |-> 0,
                          cmps |-> 0]
    /\ UNCHANGED <<ht_index, ht_log, log_head, ret, phase, rd, hist, wmq, ms>>

\* return 1 of ndn_contains: the result of a lookup, and for an insert the
\* return 0 of line 96.
WrFound(w) ==
    [w EXCEPT !.pc = "done", !.res = IF w.op = "contains" THEN 1 ELSE 0]

\* Mutant: the loop over the candidate buckets makes a third pass.
WrScan_ExtraPass ==
    /\ aborted = 0
    /\ wr.pc = "scan"
    /\ LET url == wr.url
           len == Len(wr.url)
           tag == UrlTag(url, len)
           slot == SlotAt(WrBkts, wr.n, HT)
           memcmp_called ==
               /\ NDN_SLOT_TO_OFFSET(slot) # 0
               /\ NDN_SLOT_TO_TAG(slot) = tag
               /\ ht_log[NDN_SLOT_TO_OFFSET(slot)] = ToU8(len)
           w == [wr EXCEPT !.checks = wr.checks + 1,
                           !.cmps = IF memcmp_called THEN wr.cmps + 1 ELSE wr.cmps]
       IN  IF SlotMatches(url, len, tag, WrBkts, wr.n, HT)
           THEN IF ShouldUpgrade(ht_log[WrSlotOffset + 1], wr.is_terminal)
                THEN wr' = [w EXCEPT !.pc = "set_terminal"]
                ELSE wr' = WrFound(w)
           ELSE IF wr.n < 3 * NDN_SLOTS
                THEN wr' = [w EXCEPT !.n = wr.n + 1]
                ELSE IF wr.op = "contains"
                     THEN wr' = [w EXCEPT !.pc = "done", !.res = 0]
                     ELSE wr' = [w EXCEPT !.pc = "find", !.n = 1]
    /\ UNCHANGED <<ht_index, ht_log, log_head, call, ret, aborted, phase, rd, hist, wmq, ms>>

\* One pass of the loop body of lines 57-77; after the last slot ndn_contains
\* returns 0 and ndn_ht_insert goes on to its own loop.
WrScan ==
    /\ aborted = 0
    /\ wr.pc = "scan"
    /\ LET url == wr.url
           len == Len(wr.url)
           tag == UrlTag(url, len)
           slot == SlotAt(WrBkts, wr.n, HT)
           memcmp_called ==
               /\ NDN_SLOT_TO_OFFSET(slot) # 0
               /\ NDN_SLOT_TO_TAG(slot) = tag
               /\ ht_log[NDN_SLOT_TO_OFFSET(slot)] = ToU8(len)
           w == [wr EXCEPT !.checks = wr.checks + 1,
                           !.cmps = IF memcmp_called THEN wr.cmps + 1 ELSE wr.cmps]
       IN  IF SlotMatches(url, len, tag, WrBkts, wr.n, HT)
           THEN IF ShouldUpgrade(ht_log[WrSlotOffset + 1], wr.is_terminal)
                THEN wr' = [w EXCEPT !.pc = "set_terminal"]
                ELSE wr' = WrFound(w)
           ELSE IF wr.n < 2 * NDN_SLOTS
                THEN wr' = [w EXCEPT !.n = wr.n + 1]
                ELSE IF wr.op = "contains"
                     THEN wr' = [w EXCEPT !.pc = "done", !.res = 0]
                     ELSE wr' = [w EXCEPT !.pc = "find", !.n = 1]
    /\ UNCHANGED <<ht_index, ht_log, log_head, call, ret, aborted, phase, rd, hist, wmq, ms>>

\* log_ptr[1] = 1;
WrSetTerminal ==
    /\ aborted = 0
    /\ wr.pc = "set_terminal"
    /\ ht_log' = [ht_log EXCEPT ![WrSlotOffset + 1] = 1]
    /\ wr' = [wr EXCEPT !.pc = "set_port"]
    /\ UNCHANGED <<ht_index, log_head, call, ret, aborted, phase, rd, hist, wmq, ms>>

\* log_ptr[2] = dst_port_id; return 1;
WrSetPort ==
    /\ aborted = 0
    /\ wr.pc = "set_port"
    /\ ht_log' = [ht_log EXCEPT ![WrSlotOffset + 2] = ToU8(wr.dst_port_id)]
    /\ wr' = WrFound(wr)
    /\ UNCHANGED <<ht_index, log_head, call, ret, aborted, phase, rd, hist, wmq, ms>>

\* One pass of the loop body of lines 120-126: the test slot_offset == 0,
\* and at an empty slot insert_offset = ht->log_head and the assert.
WrFind ==
    /\ aborted = 0
    /\ wr.pc = "find"
    /\ LET w == [wr EXCEPT !.checks = wr.checks + 1]
       IN  IF WrSlotOffset = 0
           THEN IF ~(log_head + NDN_LOG_HEADROOM < NDN_LOG_CAP)
                THEN aborted' = 126 /\ wr' = w
                ELSE /\ aborted' = aborted
                     /\ wr' = [w EXCEPT !.pc = "w_slot", !.insert_offset = log_head]
           ELSE /\ aborted' = aborted
                /\ IF wr.n < 2 * NDN_SLOTS
                   THEN wr' = [w EXCEPT !.n = wr.n + 1]
                   ELSE wr' = [w EXCEPT !.pc = "done", !.res = -1]
    /\ UNCHANGED <<ht_index, ht_log, log_head, call, ret, phase, rd, hist, wmq, ms>>

\* slot[i] = ((ULL) tag << 48) | insert_offset;
WrSlot ==
    /\ aborted = 0
    /\ wr.pc = "w_slot"
    /\ ht_index' = [ht_index EXCEPT ![ProbeBkt(WrBkts, wr.n)][ProbeIdx(wr.n)] =
                       MakeSlot(UrlTag(wr.url, Len(wr.url)), wr.insert_offset)]
    /\ wr' = [wr EXCEPT !.pc = "w_head"]
    /\ UNCHANGED <<ht_log, log_head, call, ret, aborted, phase, rd, hist, wmq, ms>>

\* ht->log_head += (3 + len);
WrHead ==
    /\ aborted = 0
    /\ wr.pc = "w_head"
    /\ log_head' = log_head + (3 + Len(wr.url))
    /\ wr' = [wr EXCEPT !.pc = "w_len"]
    /\ UNCHANGED <<ht_index, ht_log, call, ret, aborted, phase, rd, hist, wmq, ms>>

\* ht_log[insert_offset] = len;
WrLen ==
    /\ aborted = 0
    /\ wr.pc = "w_len"
    /\ ht_log' = [ht_log EXCEPT ![wr.insert_offset] = ToU8(Len(wr.url))]
    /\ wr' = [wr EXCEPT !.pc = "w_term"]
    /\ UNCHANGED <<ht_index, log_head, call, ret, aborted, phase, rd, hist, wmq, ms>>

\* ht_log[insert_offset + 1] = is_terminal;
WrTerm ==
    /\ aborted = 0
    /\ wr.pc = "w_term"
    /\ ht_log' = [ht_log EXCEPT ![wr.insert_offset + 1] = wr.is_terminal]
    /\ wr' = [wr EXCEPT !.pc = "w_port"]
    /\ UNCHANGED <<ht_index, log_head, call, ret, aborted, phase, rd, hist, wmq, ms>>

\* ht_log[insert_offset + 2] = dst_port_id;
WrPort ==
    /\ aborted = 0
    /\ wr.pc = "w_port"
    /\ ht_log' = [ht_log EXCEPT ![wr.insert_offset + 2] = ToU8(wr.dst_port_id)]
    /\ wr' = [wr EXCEPT !.pc = "w_key"]
    /\ UNCHANGED <<ht_index, log_head, call, ret, aborted, phase, rd, hist, wmq, ms>>

\* memcpy(&ht_log[insert_offset + 3], url, len); return 0;
WrKey ==
    /\ aborted = 0
    /\ wr.pc = "w_key"
    /\ ht_log' = [a \in DOMAIN ht_log |->
                    IF a >= wr.insert_offset + 3
                          /\ a < wr.insert_offset + 3 + Len(wr.url)
                    THEN wr.url[a - (wr.insert_offset + 3) + 1]
                    ELSE ht_log[a]]
    /\ wr' = [wr EXCEPT !.pc = "done", !.res = 0]
    /\ UNCHANGED <<ht_index, log_head, call, ret, aborted, phase, rd, hist, wmq, ms>>

\* The call has returned wr.res.
WrReturn ==
    /\ aborted = 0
    /\ wr.pc = "done"
    /\ ret' = wr.res
    /\ wr' = WrIdle
    /\ UNCHANGED <<ht_index, ht_log, log_head, call, aborted, phase, rd, hist, wmq, ms>>

NextStep ==
    \/ \E c \in StepInsertCalls : WrCall("insert", c)
    \/ \E c \in StepLookupCalls : WrCall("contains", c)
    \/ WrScan
    \/ WrSetTerminal
    \/ WrSetPort
    \/ WrFind
    \/ WrSlot
    \/ WrHead
    \/ WrLen
    \/ WrTerm
    \/ WrPort
    \/ WrKey
    \/ WrReturn

SpecStep == Init /\ [][NextStep]_vars

(***************************************************************************)
(* Sequences of inserts.  The writer makes up to MaxCalls calls of         *)
(* ndn_ht_insert, as the loop of ndn_init does with the prefixes of its    *)
(* urls; hist keeps the calls in the order they were made.  RunInserts is  *)
(* the same calls made one after the other from a given table: ok tells    *)
(* whether every call returned 0 without failing an assert.                *)
(***************************************************************************)
MaxCalls == 3

\* a/b/ non-terminal and terminal with two ports, a/b/c/ terminal, b/ and
\* c/b/ non-terminal (a/b/, b/ and c/b/ have one candidate bucket, the same).
OrdCalls ==
    { << <<97, 47, 98, 47>>, 0, -1 >>, << <<97, 47, 98, 47>>, 1, 5 >>,
      << <<97, 47, 98, 47>>, 1, 9 >>, << <<97, 47, 98, 47, 99, 47>>, 1, 5 >>,
      << <<98, 47>>, 0, -1 >>, << <<99, 47, 98, 47>>, 0, -1 >> }

OrdInsert(c) ==
    /\ aborted = 0
    /\ phase = "write"
    /\ Len(hist) < MaxCalls
    /\ call' = [op |-> "insert", url |-> c[1], is_terminal |-> c[2],
                dst_port_id |-> c[3]]
    /\ hist' = Append(hist, c)
    /\ LET r == ndn_ht_insert(c[1], Len(c[1]), c[2], c[3], HT)
       IN  /\ ht_index' = r.ht.ht_index
           /\ ht_log' = r.ht.ht_log
           /\ log_head' = r.ht.log_head
           /\ ret' = r.ret
           /\ aborted' = r.abort
    /\ UNCHANGED <<phase, rd, wr, wmq, ms>>

NextOrd == \E c \in OrdCalls : OrdInsert(c)

SpecOrd == Init /\ [][NextOrd]_vars

\* The table of Init.
EmptyHT ==
    [ht_index |-> [b \in 0 .. (NDN_NUM_BKT - 1) |-> [i \in 0 .. (NDN_SLOTS - 1) |-> 0]],
     ht_log |-> [a \in 0 .. (NDN_LOG_CAP - 1) |-> 0],
     log_head |-> 1]

RECURSIVE RunFrom(_, _, _)
RunFrom(calls, k, ht) ==
    IF k > Len(calls)
    THEN [ok |-> TRUE, ht |-> ht]
    ELSE LET c == calls[k]
             r == ndn_ht_insert(c[1], Len(c[1]), c[2], c[3], ht)
         IN  IF r.abort # 0 \/ r.ret # 0
             THEN [ok |-> FALSE, ht |-> r.ht]
             ELSE RunFrom(calls, k + 1, r.ht)

RunInserts(calls) == RunFrom(calls, 1, EmptyHT)

(***************************************************************************)
(* The GPU master.  ipv4Gpu is the kernel, run on every request of the     *)
(* batch; its tables are those main() copies to the device, here two small *)
(* tables with the 8-bit shift scaled to IpShift and the flag 0x8000 to    *)
(* LongFlag.                                                               *)
(***************************************************************************)
IpShift == 1

LongFlag == 8

tbl_24 ==
    [e \in 0 .. MaxHead |-> IF e % 3 = 2 THEN LongFlag + (e % 4) ELSE (e % 4) + 1]

tbl_long == [x \in 0 .. (LongFlag * Pow2(IpShift) - 1) |-> (x % 4) + 5]

\* dst_port = tbl_24[dst_ip >> 8]; if(dst_port & 0x8000)
\* dst_port = tbl_long[(dst_port & 0x7fff) << 8 | (dst_port & 0xff)];
ipv4Gpu(dst_ip) ==
    LET dst_port == tbl_24[dst_ip \div Pow2(IpShift)]
    IN  IF (dst_port \div LongFlag) % 2 = 1
        THEN tbl_long[(dst_port % LongFlag) * Pow2(IpShift)
                         + (dst_port % Pow2(IpShift))]
        ELSE dst_port

\* i ++ for an int i: at INT_MAX the signed overflow is undefined, the build
\* either wraps i or keeps counting in a wider register.
IntInc(i) == IF i = INT_MAX THEN {INT_MIN, INT_MAX + 1} ELSE {i + 1}

\* The lcore whose queue the master is at.
MsLcore == worker_lcores[ms.w_i]

\* A worker puts one request into its queue: it keeps head - tail within
\* WM_QUEUE_CAP and only ever increases head.
WkEnqueue(w) ==
    /\ wmq[w].head - wmq[w].tail < WM_QUEUE_CAP
    /\ wmq[w].head < MaxHead
    /\ wmq' = [wmq EXCEPT ![w].reqs[wmq[w].head % WM_QUEUE_CAP] =
                              ReqVal(w, wmq[w].head),
                          ![w].head = wmq[w].head + 1]
    /\ UNCHANGED <<ht_index, ht_log, log_head, call, ret, aborted, phase, rd, wr,
                   hist, ms>>

\* new_head[w_lid] = lc_wmq->head; req_lo[w_lid] = nb_req; i = prev_head[w_lid]
MsSnap ==
    /\ ms.pc = "snap"
    /\ ms' = [ms EXCEPT !.new_head[MsLcore] = wmq[MsLcore].head,
                        !.req_lo[MsLcore] = ms.nb_req,
                        !.i = ToInt(ms.prev_head[MsLcore]),
                        !.pc = "copy"]
    /\ UNCHANGED <<ht_index, ht_log, log_head, call, ret, aborted, phase, rd, wr,
                   hist, wmq>>

\* One test of i < new_head[w_lid] at line 88 and one pass of lines 89-93; a
\* write beyond the end of h_reqs ends the model of the master.
MsCopy ==
    /\ ms.pc = "copy"
    /\ IF ms.i < ms.new_head[MsLcore]
       THEN IF ms.nb_req >= BufSize
            THEN ms' = [ms EXCEPT !.pc = "overrun"]
            ELSE \E nxt \in IntInc(ms.i) :
                    ms' = [ms EXCEPT
                              !.h_reqs[ms.nb_req] =
                                  wmq[MsLcore].reqs[ms.i % WM_QUEUE_CAP],
                              !.nb_req = ms.nb_req + 1,
                              !.i = nxt]
       ELSE IF ms.w_i + 1 < num_workers
            THEN ms' = [ms EXCEPT !.w_i = ms.w_i + 1, !.pc = "snap"]
            ELSE ms' = [ms EXCEPT !.pc = "check"]
    /\ UNCHANGED <<ht_index, ht_log, log_head, call, ret, aborted, phase, rd, wr,
                   hist, wmq>>

\* if(nb_req == 0) continue;
MsCheck ==
    /\ ms.pc = "check"
    /\ IF ms.nb_req = 0
       THEN ms' = [ms EXCEPT !.w_i = 0, !.pc = "snap"]
       ELSE ms' = [ms EXCEPT !.pc = "gpu"]
    /\ UNCHANGED <<ht_index, ht_log, log_head, call, ret, aborted, phase, rd, wr,
                   hist, wmq>>

\* Lines 101-121: the requests go to the device, the kernel runs on nb_req of
\* them and the responses come back into h_resps.
MsGpu ==
    /\ ms.pc = "gpu"
    /\ ms' = [ms EXCEPT
                !.h_resps = [k \in 0 .. (BufSize - 1) |->
                               IF k < ms.nb_req THEN ipv4Gpu(ms.h_reqs[k])
                               ELSE ms.h_resps[k]],
                !.w_i = 0,
                !.i = ToInt(ms.prev_head[worker_lcores[0]]),
                !.pc = "resp"]
    /\ UNCHANGED <<ht_index, ht_log, log_head, call, ret, aborted, phase, rd, wr,
                   hist, wmq>>

\* One test of i < new_head[w_lid] at line 128 and one pass of lines 131-133;
\* a read outside h_resps ends the model of the master.
MsResp ==
    /\ ms.pc = "resp"
    /\ IF ms.i < ms.new_head[MsLcore]
       THEN LET req_i == ToInt(ms.req_lo[MsLcore] + (ms.i - ms.prev_head[MsLcore]))
            IN  IF req_i \notin 0 .. (BufSize - 1)
                THEN ms' = [ms EXCEPT !.pc = "overrun"] /\ wmq' = wmq
                ELSE /\ wmq' = [wmq EXCEPT
                                  ![MsLcore].resps[ms.i % WM_QUEUE_CAP] =
                                      ms.h_resps[req_i]]
                     /\ \E nxt \in IntInc(ms.i) : ms' = [ms EXCEPT !.i = nxt]
       ELSE ms' = [ms EXCEPT !.pc = "publish"] /\ wmq' = wmq
    /\ UNCHANGED <<ht_index, ht_log, log_head, call, ret, aborted, phase, rd, wr,
                   hist>>

\* prev_head[w_lid] = new_head[w_lid]; lc_wmq->tail = new_head[w_lid];
MsPublish ==
    /\ ms.pc = "publish"
    /\ wmq' = [wmq EXCEPT ![MsLcore].tail = ms.new_head[MsLcore]]
    /\ LET m == [ms EXCEPT !.prev_head[MsLcore] = ms.new_head[MsLcore]]
       IN  IF ms.w_i + 1 < num_workers
           THEN ms' = [m EXCEPT !.w_i = ms.w_i + 1,
                                !.i = ToInt(m.prev_head[worker_lcores[ms.w_i + 1]]),
                                !.pc = "resp"]
           ELSE ms' = [m EXCEPT !.pc = "reset"]
    /\ UNCHANGED <<ht_index, ht_log, log_head, call, ret, aborted, phase, rd, wr,
                   hist>>

\* nb_req = 0; and the next pass of while(1)
MsReset ==
    /\ ms.pc = "reset"
    /\ ms' = [ms EXCEPT !.nb_req = 0, !.w_i = 0, !.pc = "snap"]
    /\ UNCHANGED <<ht_index, ht_log, log_head, call, ret, aborted, phase, rd, wr,
                   hist, wmq>>

NextQ ==
    \/ \E w \in Lcores : WkEnqueue(w)
    \/ MsSnap
    \/ MsCopy
    \/ MsCheck
    \/ MsGpu
    \/ MsResp
    \/ MsPublish
    \/ MsReset

SpecQ == Init /\ [][NextQ]_vars

(***************************************************************************)
(* Reading the table for the properties: the records of the log found by   *)
(* walking it from offset 1 to log_head, independently of the index.       *)
(***************************************************************************)
RECURSIVE RecWalk(_, _, _)
RecWalk(log, head, off) ==
    IF off >= head THEN {} ELSE {off} \cup RecWalk(log, head, off + 3 + log[off])

RecOffsets(log, head) == RecWalk(log, head, 1)

KeyAt(log, off) == [j \in 1 .. log[off] |-> log[off + 2 + j]]

\* The offsets of the records that hold the key url.
RecsOf(url, log, head) ==
    {off \in RecOffsets(log, head) : log[off] = Len(url) /\ KeyAt(log, off) = url}

Stored(url) == RecsOf(url, ht_log, log_head) # {}

\* The record of a stored key.
RecOf(url) == CHOOSE off \in RecsOf(url, ht_log, log_head) : TRUE

IsTerminal(url) == ht_log[RecOf(url) + 1] = 1

PortOf(url) == ht_log[RecOf(url) + 2]

\* ndn_contains(url, len, 0, -1, ht) returns 1
Found(url) == ndn_contains(url, Len(url), 0, -1, HT).ret = 1

\* The table after the step, and the same lookup in it.
HTnext == [ht_index |-> ht_index', ht_log |-> ht_log', log_head |-> log_head']

FoundNext(url) == ndn_contains(url, Len(url), 0, -1, HTnext).ret = 1

TableUnchanged ==
    /\ ht_index' = ht_index
    /\ ht_log' = ht_log
    /\ log_head' = log_head

\* The step is the call c = <<url, is_terminal, dst_port_id>> of the operation op.
IsCall(op, c) ==
    /\ aborted = 0
    /\ call' = [op |-> op, url |-> c[1], is_terminal |-> c[2], dst_port_id |-> c[3]]

\* The insert calls whose arguments pass the asserts of lines 89-93.
GoodInsertCalls == {c \in InsertCalls : InsertAsserts(Len(c[1]), c[2], c[3]) = 0}

(***************************************************************************)
(* C1 (round trip): a key whose ndn_ht_insert returned 0 is found by a     *)
(* no-upgrade ndn_contains right after that insert, and a key that is      *)
(* found stays found across every later insert, lookup and load (a step    *)
(* that changes no slot and no log byte cannot change what a lookup        *)
(* returns, so only the steps that change the table are looked up again).  *)
(***************************************************************************)
C1_RoundTrip ==
    [][\A u \in Urls :
          (\/ ~TableUnchanged /\ Found(u)
           \/ (\E c \in InsertCalls : c[1] = u /\ IsCall("insert", c))
                 /\ ret' = 0 /\ aborted' = 0)
          => FoundNext(u)]_vars

\* a/ is the first record, at least two records were appended after it, and a
\* no-upgrade lookup of a/ returned 1.
C1_Witness ==
    /\ call = [op |-> "contains", url |-> <<97, 47>>, is_terminal |-> 0,
               dst_port_id |-> -1]
    /\ ret = 1
    /\ RecsOf(<<97, 47>>, ht_log, log_head) = {1}
    /\ Cardinality(RecOffsets(ht_log, log_head)) >= 3

(***************************************************************************)
(* C2 (idempotent insert): ndn_ht_insert of a key that is already stored,  *)
(* with any valid is_terminal and dst_port_id, returns 0, leaves log_head  *)
(* and every slot unchanged and leaves exactly one record for the key.     *)
(***************************************************************************)
C2_IdempotentInsert ==
    [][\A c \in GoodInsertCalls :
          IsCall("insert", c) /\ Stored(c[1])
          => /\ ret' = 0
             /\ aborted' = 0
             /\ log_head' = log_head
             /\ ht_index' = ht_index
             /\ RecOffsets(ht_log', log_head') = RecOffsets(ht_log, log_head)
             /\ Cardinality(RecsOf(c[1], ht_log', log_head')) = 1]_vars

\* a/b/ is stored terminal with port 5 and was just inserted again as terminal
\* with port 9.
C2_Witness ==
    /\ call = [op |-> "insert", url |-> <<97, 47, 98, 47>>, is_terminal |-> 1,
               dst_port_id |-> 9]
    /\ ret = 0
    /\ aborted = 0
    /\ Stored(<<97, 47, 98, 47>>)
    /\ IsTerminal(<<97, 47, 98, 47>>)
    /\ PortOf(<<97, 47, 98, 47>>) = 5

(***************************************************************************)
(* C3 (one-way terminal latch): a record whose is_terminal is 1 keeps      *)
(* is_terminal = 1 and its dst_port in every step; an upgrade lookup of a  *)
(* stored non-terminal key with port p makes it terminal with port p.      *)
(***************************************************************************)
C3_TerminalLatch ==
    [][/\ \A off \in RecOffsets(ht_log, log_head) :
             ht_log[off + 1] = 1
             => ht_log'[off + 1] = 1 /\ ht_log'[off + 2] = ht_log[off + 2]
       /\ \A c \in LookupCalls :
             IsCall("contains", c) /\ c[2] = 1 /\ Stored(c[1]) /\ ~IsTerminal(c[1])
             => /\ ret' = 1
                /\ ht_log'[RecOf(c[1]) + 1] = 1
                /\ ht_log'[RecOf(c[1]) + 2] = c[3]]_vars

\* An upgrade lookup of a/b/ with port 9 found the record, which is still
\* terminal with port 5.
C3_Witness ==
    /\ call = [op |-> "contains", url |-> <<97, 47, 98, 47>>, is_terminal |-> 1,
               dst_port_id |-> 9]
    /\ ret = 1
    /\ Stored(<<97, 47, 98, 47>>)
    /\ IsTerminal(<<97, 47, 98, 47>>)
    /\ PortOf(<<97, 47, 98, 47>>) = 5

\* The prefixes ending in '/' of the word w with '/' appended.
PrefixKeys(w) ==
    {SubSeq(w \o <<SLASH>>, 1, j) :
        j \in {k \in 1 .. (Len(w) + 1) : (w \o <<SLASH>>)[k] = SLASH}}

InsertedBy(u) ==
    \/ (\E c \in InsertCalls : c[1] = u /\ IsCall("insert", c))
          /\ ret' = 0 /\ aborted' = 0
    \/ \E w \in Words, p \in Ports :
          IsCall("init", <<w, 1, p>>) /\ u \in PrefixKeys(w)

(***************************************************************************)
(* C4 (negative lookup): ndn_contains finds no valid key in the empty      *)
(* table, and a valid key that is not found becomes found only in a step   *)
(* that inserts that very key: a successful ndn_ht_insert of it, or the    *)
(* ndn_init iteration of a word that has it as a prefix.  (Only the steps  *)
(* that change the table can change what a lookup returns.)                *)
(***************************************************************************)
C4_NegativeLookup ==
    /\ \A u \in ValidUrls : ~Found(u)
    /\ [][\A u \in ValidUrls :
             ~TableUnchanged /\ ~InsertedBy(u) /\ ~Found(u) => ~FoundNext(u)]_vars

\* A lookup of a/ returned 0 while "ab" (same tag, same length, a bucket of
\* a/) and a/b/ (a/ is its leading bytes) are stored.
C4_Witness ==
    /\ call = [op |-> "contains", url |-> <<97, 47>>, is_terminal |-> 0,
               dst_port_id |-> -1]
    /\ ret = 0
    /\ aborted = 0
    /\ Stored(OpenUrl)
    /\ Stored(<<97, 47, 98, 47>>)

LogExhausted == log_head + NDN_LOG_HEADROOM >= NDN_LOG_CAP

BothBucketsFull(url) == EmptyProbes(Buckets(url, Len(url)), HT) = {}

(***************************************************************************)
(* C5 (log capacity), as claimed: every insert of an absent key with       *)
(* log_head + headroom >= capacity fails the capacity assert and changes   *)
(* nothing.                                                                *)
(***************************************************************************)
C5_Original ==
    [][\A c \in GoodInsertCalls :
          IsCall("insert", c) /\ ~Stored(c[1]) /\ LogExhausted
          => aborted' = 126 /\ TableUnchanged]_vars

(***************************************************************************)
(* C5 amended: with log_head + headroom >= capacity, an insert of an       *)
(* absent key that finds an empty slot in its candidate buckets fails the  *)
(* assert of line 126; if both buckets are full it returns -1 instead.     *)
(* Neither changes a slot, a log byte or log_head.                         *)
(***************************************************************************)
C5_CapacityExhausted ==
    [][\A c \in GoodInsertCalls :
          IsCall("insert", c) /\ ~Stored(c[1]) /\ LogExhausted
          => /\ TableUnchanged
             /\ IF BothBucketsFull(c[1])
                THEN ret' = -1 /\ aborted' = 0
                ELSE aborted' = 126]_vars

\* An insert of an absent key stopped at the capacity assert.
C5_Witness ==
    /\ call.op = "insert"
    /\ aborted = 126
    /\ LogExhausted
    /\ ~Stored(call.url)

(***************************************************************************)
(* C6 (bucket full): an insert of an absent key whose two candidate        *)
(* buckets have no empty slot returns -1 and leaves every slot, every log  *)
(* byte and log_head unchanged, so every key found before is found after.  *)
(***************************************************************************)
C6_BucketFull ==
    [][\A c \in GoodInsertCalls :
          IsCall("insert", c) /\ ~Stored(c[1]) /\ BothBucketsFull(c[1])
          => /\ ret' = -1
             /\ aborted' = 0
             /\ TableUnchanged
             /\ \A v \in Urls : Found(v) => FoundNext(v)]_vars

\* An insert returned -1 while the log still had room.
C6_Witness ==
    /\ call.op = "insert"
    /\ ret = -1
    /\ aborted = 0
    /\ ~LogExhausted
    /\ ~Stored(call.url)
    /\ BothBucketsFull(call.url)

InvalidKey(url) ==
    \/ Len(url) < 2
    \/ Len(url) > NDN_MAX_URL_LENGTH
    \/ url[Len(url)] # SLASH

(***************************************************************************)
(* C7 (invalid keys), as claimed: an insert of a key shorter than 2,       *)
(* longer than NDN_MAX_URL_LENGTH or not ending in '/' is rejected and     *)
(* changes nothing.                                                        *)
(***************************************************************************)
C7_InvalidKeyRejected ==
    [][\A c \in InsertCalls :
          IsCall("insert", c) /\ InvalidKey(c[1])
          => (aborted' # 0 \/ ret' = -1) /\ TableUnchanged]_vars

\* The step is a step of reader r, in a call with is_terminal = 0.
RdNoUpgradeStep(r) ==
    /\ rd'[r] # rd[r]
    /\ rd[r].pc # "idle" => rd[r].is_terminal = 0
    /\ rd[r].pc = "idle" => rd'[r].is_terminal = 0

(***************************************************************************)
(* C8 (read-only lookup): ndn_contains with is_terminal = 0 leaves every   *)
(* slot, every log byte and log_head unchanged, for present and absent     *)
(* keys alike; and every step of a reader that runs such a lookup next to  *)
(* other readers leaves them unchanged, the reader ending with the result  *)
(* the lookup gives when it runs alone on the table.                       *)
(***************************************************************************)
C8_ReadOnlyLookup ==
    [][/\ \A c \in LookupCalls :
             IsCall("contains", c) /\ c[2] = 0 => TableUnchanged
       /\ \A r \in Readers :
             RdNoUpgradeStep(r)
             => /\ TableUnchanged
                /\ rd'[r].pc = "done"
                   => rd'[r].res =
                         ndn_contains(rd[r].url, Len(rd[r].url), 0, -1, HT).ret]_vars

\* Reader 1 has found a/b/ without upgrade while reader 2 is in the middle of
\* its own no-upgrade scan; a/b/ is still non-terminal.
C8_Witness ==
    /\ phase = "read"
    /\ rd[1].pc = "done" /\ rd[1].is_terminal = 0 /\ rd[1].res = 1
    /\ rd[2].pc = "scan" /\ rd[2].is_terminal = 0 /\ rd[2].n >= 2
    /\ Stored(<<97, 47, 98, 47>>)
    /\ ~IsTerminal(<<97, 47, 98, 47>>)

(***************************************************************************)
(* C9 (insert upgrades): ndn_ht_insert(K, 1, p) of a stored non-terminal K *)
(* returns 0 and leaves K terminal with dst_port p; ndn_ht_insert(K, 0, q) *)
(* of a stored terminal K returns 0 and leaves K terminal with its port.   *)
(***************************************************************************)
C9_InsertUpgrades ==
    [][\A c \in GoodInsertCalls :
          IsCall("insert", c) /\ Stored(c[1])
          => /\ ~IsTerminal(c[1]) /\ c[2] = 1
                => /\ ret' = 0 /\ aborted' = 0
                   /\ ht_log'[RecOf(c[1]) + 1] = 1
                   /\ ht_log'[RecOf(c[1]) + 2] = ToU8(c[3])
             /\ IsTerminal(c[1]) /\ c[2] = 0
                => /\ ret' = 0 /\ aborted' = 0
                   /\ ht_log'[RecOf(c[1]) + 1] = 1
                   /\ ht_log'[RecOf(c[1]) + 2] = PortOf(c[1])]_vars

\* a/b/ was inserted again as terminal with port 9; its record, which is not
\* the last of the log, is terminal with port 9.
C9_Witness ==
    /\ call = [op |-> "insert", url |-> <<97, 47, 98, 47>>, is_terminal |-> 1,
               dst_port_id |-> 9]
    /\ ret = 0
    /\ aborted = 0
    /\ Stored(<<97, 47, 98, 47>>)
    /\ IsTerminal(<<97, 47, 98, 47>>)
    /\ PortOf(<<97, 47, 98, 47>>) = 9
    /\ RecOf(<<97, 47, 98, 47>>) + 3 + 4 < log_head

\* The records of the log in offset order.
RECURSIVE RecSeqFrom(_, _, _)
RecSeqFrom(log, head, off) ==
    IF off >= head THEN <<>>
    ELSE <<[key |-> KeyAt(log, off), is_terminal |-> log[off + 1],
            dst_port |-> log[off + 2]]>>
            \o RecSeqFrom(log, head, off + 3 + log[off])

RecSeq(log, head) == RecSeqFrom(log, head, 1)

\* The records the claim expects for the name full = word plus '/', from its
\* k-th byte on: non-terminal with port (uint8_t) -1 for a proper prefix.
RECURSIVE ExpectedFrom(_, _, _)
ExpectedFrom(full, k, p) ==
    IF k > Len(full) THEN <<>>
    ELSE IF full[k] # SLASH THEN ExpectedFrom(full, k + 1, p)
    ELSE <<[key |-> SubSeq(full, 1, k),
            is_terminal |-> IF k = Len(full) THEN 1 ELSE 0,
            dst_port |-> IF k = Len(full) THEN p ELSE 255]>>
            \o ExpectedFrom(full, k + 1, p)

Expected(w, p) == ExpectedFrom(w \o <<SLASH>>, 1, p)

TableEmpty ==
    /\ log_head = 1
    /\ \A b \in DOMAIN ht_index : \A i \in DOMAIN ht_index[b] : ht_index[b][i] = 0

LoadedExactly(w, p) ==
    /\ RecSeq(ht_log', log_head') = Expected(w, p)
    /\ Len(RecSeq(ht_log', log_head')) = ndn_num_components(w)
    /\ \A u \in PrefixKeys(w) : FoundNext(u)

SlotIds == {<<b, i>> : b \in 0 .. (NDN_NUM_BKT - 1), i \in 0 .. (NDN_SLOTS - 1)}

SlotOffset(s) == NDN_SLOT_TO_OFFSET(ht_index[s[1]][s[2]])

Occupied == {s \in SlotIds : SlotOffset(s) # 0}

SlotKey(s) == KeyAt(ht_log, SlotOffset(s))

(***************************************************************************)
(* C11 (no false negatives): every occupied slot lies in the primary or    *)
(* the secondary bucket that the lookup computes for the key stored at the *)
(* slot's offset, and carries the tag the lookup computes for that key; so *)
(* ndn_contains finds the key of every record of the log.                  *)
(***************************************************************************)
C11_NoFalseNegatives ==
    /\ \A s \in Occupied :
          LET key == SlotKey(s)
          IN  /\ s[1] \in {Bkt1(key, Len(key)), Bkt2(key, Len(key))}
              /\ NDN_SLOT_TO_TAG(ht_index[s[1]][s[2]]) = UrlTag(key, Len(key))
    /\ \A off \in RecOffsets(ht_log, log_head) : Found(KeyAt(ht_log, off))

\* A key sits in its secondary bucket, which is not its primary bucket, and a
\* lookup of it has just returned 1.
C11_Witness ==
    /\ call.op = "contains"
    /\ ret = 1
    /\ \E s \in Occupied :
          /\ SlotKey(s) = call.url
          /\ s[1] # Bkt1(call.url, Len(call.url))
          /\ s[1] = Bkt2(call.url, Len(call.url))

(***************************************************************************)
(* C12 (slots are write-once): in every step, a slot whose offset is not 0 *)
(* keeps its tag and its offset; only slots with offset 0 are written.     *)
(***************************************************************************)
C12_SlotsWriteOnce ==
    [][\A s \in Occupied : ht_index'[s[1]][s[2]] = ht_index[s[1]][s[2]]]_vars

\* An insert has just written slot 1 of a bucket whose slot 0 was occupied
\* before, and three slots are occupied.
C12_Witness ==
    /\ call.op = "insert"
    /\ ret = 0
    /\ aborted = 0
    /\ Cardinality(Occupied) >= 3
    /\ \E s \in Occupied :
          /\ s[2] = 1
          /\ SlotOffset(s) + 3 + Len(call.url) = log_head
          /\ SlotKey(s) = call.url
          /\ <<s[1], 0>> \in Occupied
          /\ SlotOffset(<<s[1], 0>>) < SlotOffset(s)

(***************************************************************************)
(* C13 (the log is append-only): log_head never decreases; an insert of an *)
(* absent key of length L that returns 0 writes its record at the old      *)
(* log_head and advances log_head by exactly 3 + L; every other insert and *)
(* every lookup leaves log_head unchanged; the length byte and the key     *)
(* bytes of a record that is in the log never change.                      *)
(***************************************************************************)
C13_LogAppendOnly ==
    [][/\ log_head' >= log_head
       /\ \A c \in InsertCalls :
             IsCall("insert", c)
             => IF ~Stored(c[1]) /\ ret' = 0 /\ aborted' = 0
                THEN /\ log_head' = log_head + 3 + Len(c[1])
                     /\ ht_log'[log_head] = Len(c[1])
                     /\ ht_log'[log_head + 1] = c[2]
                     /\ ht_log'[log_head + 2] = ToU8(c[3])
                     /\ KeyAt(ht_log', log_head) = c[1]
                ELSE log_head' = log_head
       /\ \A c \in LookupCalls : IsCall("contains", c) => log_head' = log_head
       /\ \A off \in RecOffsets(ht_log, log_head) :
             /\ ht_log'[off] = ht_log[off]
             /\ KeyAt(ht_log', off) = KeyAt(ht_log, off)]_vars

\* An insert has just appended the third record of the log, right behind the
\* two that were there.
C13_Witness ==
    /\ call.op = "insert"
    /\ ret = 0
    /\ aborted = 0
    /\ Cardinality(RecOffsets(ht_log, log_head)) = 3
    /\ \E off \in RecsOf(call.url, ht_log, log_head) :
          /\ off > 1
          /\ off + 3 + Len(call.url) = log_head
          /\ ht_log[off + 1] = call.is_terminal

\* The empty slots of bucket b.
EmptyIn(b) == {i \in 0 .. (NDN_SLOTS - 1) : NDN_SLOT_TO_OFFSET(ht_index[b][i]) = 0}

(***************************************************************************)
(* C14 (first-empty-wins, primary first): an insert of an absent key that  *)
(* returns 0 writes exactly one slot, the lowest-index empty slot of the   *)
(* primary bucket if there is one and of the secondary bucket otherwise;   *)
(* an insert of an absent key returns -1 exactly when neither bucket has   *)
(* an empty slot, also when the two bucket indices are the same.           *)
(***************************************************************************)
C14_FirstEmptyWins ==
    [][\A c \in GoodInsertCalls :
          IsCall("insert", c) /\ ~Stored(c[1])
          => LET b1 == Bkt1(c[1], Len(c[1]))
                 b2 == Bkt2(c[1], Len(c[1]))
                 tb == IF EmptyIn(b1) # {} THEN b1 ELSE b2
             IN  /\ (ret' = -1 /\ aborted' = 0) <=> (EmptyIn(b1) = {} /\ EmptyIn(b2) = {})
                 /\ (ret' = 0 /\ aborted' = 0)
                    => /\ ht_index'[tb][SetMin(EmptyIn(tb))] =
                             MakeSlot(UrlTag(c[1], Len(c[1])), log_head)
                       /\ \A s \in SlotIds :
                             s # <<tb, SetMin(EmptyIn(tb))>>
                             => ht_index'[s[1]][s[2]] = ht_index[s[1]][s[2]]]_vars

\* An insert has just put its key into the secondary bucket, the primary
\* bucket (another bucket) being full of other keys.
C14_Witness ==
    /\ call.op = "insert"
    /\ ret = 0
    /\ aborted = 0
    /\ Bkt1(call.url, Len(call.url)) # Bkt2(call.url, Len(call.url))
    /\ EmptyIn(Bkt1(call.url, Len(call.url))) = {}
    /\ \E s \in Occupied :
          /\ s[1] = Bkt2(call.url, Len(call.url))
          /\ SlotKey(s) = call.url
          /\ SlotOffset(s) + 3 + Len(call.url) = log_head

(***************************************************************************)
(* C18 (upgrade lookup frame): ndn_contains with is_terminal = 1 changes   *)
(* nothing when the key is absent or its record is terminal; when the key  *)
(* is stored non-terminal it sets bytes 1 and 2 of that record to 1 and to *)
(* the port of the call and changes no other log byte, no slot and not     *)
(* log_head.                                                               *)
(***************************************************************************)
C18_UpgradeFrame ==
    [][\A c \in LookupCalls :
          IsCall("contains", c) /\ c[2] = 1
          => IF Stored(c[1]) /\ ~IsTerminal(c[1])
             THEN /\ ht_index' = ht_index
                  /\ log_head' = log_head
                  /\ ht_log'[RecOf(c[1]) + 1] = 1
                  /\ ht_log'[RecOf(c[1]) + 2] = ToU8(c[3])
                  /\ \A a \in DOMAIN ht_log :
                        a \notin {RecOf(c[1]) + 1, RecOf(c[1]) + 2}
                        => ht_log'[a] = ht_log[a]
             ELSE TableUnchanged]_vars

\* An upgrade lookup has just made a/b/ terminal with port 9; its record has
\* a record before it and a record after it, both still non-terminal.
C18_Witness ==
    /\ call = [op |-> "contains", url |-> <<97, 47, 98, 47>>, is_terminal |-> 1,
               dst_port_id |-> 9]
    /\ ret = 1
    /\ PortOf(<<97, 47, 98, 47>>) = 9
    /\ RecOf(<<97, 47, 98, 47>>) > 1
    /\ RecOf(<<97, 47, 98, 47>>) + 3 + 4 < log_head
    /\ \A off \in RecOffsets(ht_log, log_head) :
          off # RecOf(<<97, 47, 98, 47>>) => ht_log[off + 1] = 0

(***************************************************************************)
(* C19 (no duplicates): no two records of the log hold the same key, every *)
(* record is referenced by exactly one occupied slot, and two occupied     *)
(* slots never reference the same record.                                  *)
(***************************************************************************)
C19_NoDuplicates ==
    /\ \A o1, o2 \in RecOffsets(ht_log, log_head) :
          KeyAt(ht_log, o1) = KeyAt(ht_log, o2) => o1 = o2
    /\ \A off \in RecOffsets(ht_log, log_head) :
          Cardinality({s \in Occupied : SlotOffset(s) = off}) = 1
    /\ \A s, t \in Occupied : SlotOffset(s) = SlotOffset(t) => s = t
    /\ \A s \in Occupied : SlotOffset(s) \in RecOffsets(ht_log, log_head)

\* A stored key has just been inserted again, with three records in the log.
C19_Witness ==
    /\ call.op = "insert"
    /\ ret = 0
    /\ aborted = 0
    /\ Cardinality(RecOffsets(ht_log, log_head)) = 3
    /\ \E off \in RecsOf(call.url, ht_log, log_head) :
          off + 3 + Len(call.url) < log_head

(***************************************************************************)
(* C20 (offset validity): 1 <= log_head <= NDN_LOG_CAP; the records lie    *)
(* one behind the other from offset 1 to log_head, each at least 2 bytes   *)
(* of key long; every occupied slot holds the offset of one of them, so    *)
(* 1 <= offset and offset + 3 + length <= log_head; byte 0 of the log is   *)
(* never written.                                                          *)
(***************************************************************************)
C20_OffsetValidity ==
    /\ 1 <= log_head
    /\ log_head <= NDN_LOG_CAP
    /\ ht_log[0] = 0
    /\ \A off \in RecOffsets(ht_log, log_head) :
          /\ ht_log[off] >= 2
          /\ off + 3 + ht_log[off] <= log_head
          /\ off + 3 + ht_log[off] < log_head
                => off + 3 + ht_log[off] \in RecOffsets(ht_log, log_head)
    /\ \A s \in Occupied :
          /\ SlotOffset(s) \in RecOffsets(ht_log, log_head)
          /\ 1 <= SlotOffset(s)
          /\ SlotOffset(s) + 3 + ht_log[SlotOffset(s)] <= log_head

\* The last insert that the headroom allows has been done: the log holds at
\* least three records and log_head is within the headroom of the capacity.
C20_Witness ==
    /\ call.op = "insert"
    /\ ret = 0
    /\ aborted = 0
    /\ LogExhausted
    /\ Cardinality(Occupied) >= 3
    /\ \E s \in Occupied : SlotOffset(s) + 3 + Len(call.url) = log_head

(***************************************************************************)
(* C15 (record before slot), as claimed: at every step of ndn_ht_insert,   *)
(* every occupied slot references a record that is completely written: its *)
(* length byte is set, the record ends at or before log_head, and the key  *)
(* bytes are there, so that the slot's tag is the tag of the key.          *)
(***************************************************************************)
C15_RecordBeforeSlot ==
    \A s \in Occupied :
       /\ ht_log[SlotOffset(s)] >= 2
       /\ SlotOffset(s) + 3 + ht_log[SlotOffset(s)] <= log_head
       /\ NDN_SLOT_TO_TAG(ht_index[s[1]][s[2]]) = UrlTag(SlotKey(s), Len(SlotKey(s)))

\* Reader r is at a slot that matches its key.
RdAtMatch(r) ==
    /\ rd[r].pc = "scan"
    /\ SlotMatches(rd[r].url, Len(rd[r].url), UrlTag(rd[r].url, Len(rd[r].url)),
                   Buckets(rd[r].url, Len(rd[r].url)), rd[r].n, HT)

(***************************************************************************)
(* C16 (upgrade race): the upgrade of concurrent readers is not            *)
(* synchronized.  A reader with is_terminal = 1 that reads log_ptr[1] == 0 *)
(* at its match goes on to its two writes, also while another reader is    *)
(* between its own read and its writes on the same record; its last write  *)
(* puts its own port into the record whatever port is there.  So among the *)
(* readers the port of a terminal record changes, and it changes only in   *)
(* such a late write; the flag, once 1, stays 1.                           *)
(***************************************************************************)
C16_UpgradeRace ==
    [][/\ \A r \in Readers :
             /\ RdAtMatch(r) /\ rd'[r] # rd[r]
                   /\ rd[r].is_terminal = 1 /\ ht_log[RdOffset(r) + 1] = 0
                => rd'[r].pc = "set_terminal" /\ TableUnchanged
             /\ rd[r].pc = "set_terminal" /\ rd'[r] # rd[r]
                => /\ rd'[r].pc = "set_port"
                   /\ ht_log' = [ht_log EXCEPT ![RdOffset(r) + 1] = 1]
             /\ rd[r].pc = "set_port" /\ rd'[r] # rd[r]
                => /\ rd'[r].pc = "done"
                   /\ ht_log' = [ht_log EXCEPT ![RdOffset(r) + 2] =
                                    ToU8(rd[r].dst_port_id)]
       /\ \A off \in RecOffsets(ht_log, log_head) :
             ht_log[off + 1] = 1
             => /\ ht_log'[off + 1] = 1
                /\ ht_log'[off + 2] # ht_log[off + 2]
                   => \E r \in Readers :
                         /\ rd[r].pc = "set_port"
                         /\ rd'[r].pc = "done"
                         /\ RdOffset(r) = off]_vars

\* Both readers have read is_terminal == 0 of a/b/: reader 1 has upgraded it
\* to port 5 and returned 1, reader 2 has written the flag and is about to
\* write port 9 over it.
C16_Witness ==
    /\ phase = "read"
    /\ rd[1].pc = "done" /\ rd[1].is_terminal = 1 /\ rd[1].dst_port_id = 5
    /\ rd[1].res = 1
    /\ rd[2].pc = "set_port" /\ rd[2].is_terminal = 1 /\ rd[2].dst_port_id = 9
    /\ rd[1].url = rd[2].url
    /\ IsTerminal(rd[2].url)
    /\ PortOf(rd[2].url) = 5

\* A step of the call in progress.
WrStep ==
    \/ WrScan \/ WrSetTerminal \/ WrSetPort \/ WrFind \/ WrSlot \/ WrHead
    \/ WrLen \/ WrTerm \/ WrPort \/ WrKey \/ WrReturn

(***************************************************************************)
(* C17 (bounded steps), as claimed, with 2 * NDN_SLOTS for the 16 slots of *)
(* two buckets: no call checks more than 2 * NDN_SLOTS slots or compares   *)
(* more than two keys.                                                     *)
(***************************************************************************)
C17_Original == wr.checks <= 2 * NDN_SLOTS /\ wr.cmps <= 2

(***************************************************************************)
(* C17 amended: a lookup checks at most 2 * NDN_SLOTS slots; an insert     *)
(* checks at most 4 * NDN_SLOTS, those of its lookup and then those of its *)
(* own scan for an empty slot; the keys compared are at most one per slot  *)
(* the lookup checks.  Every check moves the scan one position on, and a   *)
(* call that has not stopped at an assert always has a next step.          *)
(***************************************************************************)
C17_BoundedSteps ==
    /\ wr.op = "contains" => wr.checks <= 2 * NDN_SLOTS
    /\ wr.op = "insert" => wr.checks <= 4 * NDN_SLOTS
    /\ wr.cmps <= 2 * NDN_SLOTS
    /\ wr.cmps <= wr.checks
    /\ aborted = 0 /\ wr.pc = "scan"
          => wr.n \in Probes /\ wr.checks = wr.n - 1
    /\ aborted = 0 /\ wr.pc = "find"
          => wr.n \in Probes /\ wr.checks = 2 * NDN_SLOTS + wr.n - 1
    /\ aborted = 0 /\ wr.pc # "idle" => ENABLED WrStep

\* An insert of an absent key has returned -1 after 4 * NDN_SLOTS slot checks
\* and 2 * NDN_SLOTS key comparisons: its one candidate bucket is full of
\* keys with its tag and its length.
C17_Witness ==
    /\ wr.pc = "done"
    /\ wr.op = "insert"
    /\ wr.res = -1
    /\ wr.checks = 4 * NDN_SLOTS
    /\ wr.cmps = 2 * NDN_SLOTS
    /\ ~Stored(wr.url)

(***************************************************************************)
(* Orderings of the calls made, and what a sequence of calls says about a  *)
(* key: inserted, inserted as terminal, port of its first terminal insert. *)
(***************************************************************************)
Orderings(h) ==
    {[i \in DOMAIN h |-> h[f[i]]] :
        f \in {g \in [DOMAIN h -> DOMAIN h] :
                  \A i, j \in DOMAIN h : g[i] = g[j] => i = j}}

KeysOf(h) == {h[i][1] : i \in DOMAIN h}

TerminalIn(h, key) == \E i \in DOMAIN h : h[i][1] = key /\ h[i][2] = 1

FirstTerminalPort(h, key) ==
    h[SetMin({i \in DOMAIN h : h[i][1] = key /\ h[i][2] = 1})][3]

\* The keys of the records of a table, and the record of a key.
KeysIn(ht) ==
    {KeyAt(ht.ht_log, off) : off \in RecOffsets(ht.ht_log, ht.log_head)}

RecIn(ht, key) == CHOOSE off \in RecsOf(key, ht.ht_log, ht.log_head) : TRUE

(***************************************************************************)
(* C21 (order independence of the terminal flag): take the insert calls    *)
(* made so far in any order in which they all succeed, starting from the   *)
(* empty table.  The keys stored are the keys of the calls, a key is       *)
(* terminal iff one of its calls was terminal (neither depends on the      *)
(* order), and the dst_port of a terminal key is the port of the first     *)
(* terminal call of that key in that order.  The table the writer has      *)
(* built is the one of the order it used.                                  *)
(***************************************************************************)
C21_OrderIndependence ==
    /\ \A p \in Orderings(hist) :
          LET r == RunInserts(p)
          IN  r.ok
              => /\ KeysIn(r.ht) = KeysOf(hist)
                 /\ \A key \in KeysOf(hist) :
                       /\ r.ht.ht_log[RecIn(r.ht, key) + 1] =
                             (IF TerminalIn(hist, key) THEN 1 ELSE 0)
                       /\ TerminalIn(hist, key)
                          => r.ht.ht_log[RecIn(r.ht, key) + 2] =
                                ToU8(FirstTerminalPort(p, key))
    /\ RunInserts(hist).ok => RunInserts(hist).ht = HT

\* a/b/ was inserted non-terminal, then terminal with port 9, then terminal
\* with port 5: it is terminal with port 9, and the order with the last two
\* calls exchanged succeeds too and leaves it terminal with port 5.
C21_Witness ==
    /\ hist = << << <<97, 47, 98, 47>>, 0, -1 >>, << <<97, 47, 98, 47>>, 1, 9 >>,
                 << <<97, 47, 98, 47>>, 1, 5 >> >>
    /\ ret = 0
    /\ aborted = 0
    /\ IsTerminal(<<97, 47, 98, 47>>)
    /\ PortOf(<<97, 47, 98, 47>>) = 9
    /\ \E p \in Orderings(hist) :
          /\ RunInserts(p).ok
          /\ RunInserts(p).ht.ht_log[RecIn(RunInserts(p).ht, <<97, 47, 98, 47>>) + 2] = 5

\* The number of new requests of lcore w in the batch of the master.
BatchCount(w) == ms.new_head[w] - ms.prev_head[w]

\* The batch is in h_reqs: the requests of each lcore once, in queue order,
\* from req_lo on, the lcores one behind the other, nb_req in all.
BatchCopied ==
    /\ \A w_i \in 0 .. (num_workers - 1) :
          LET w == worker_lcores[w_i]
          IN  /\ ms.req_lo[w] =
                    (IF w_i = 0 THEN 0
                     ELSE ms.req_lo[worker_lcores[w_i - 1]]
                             + BatchCount(worker_lcores[w_i - 1]))
              /\ \A k \in 0 .. (BatchCount(w) - 1) :
                    /\ ms.req_lo[w] + k < BufSize
                    /\ ms.h_reqs[ms.req_lo[w] + k] = ReqVal(w, ms.prev_head[w] + k)
    /\ ms.nb_req = ms.req_lo[worker_lcores[num_workers - 1]]
                      + BatchCount(worker_lcores[num_workers - 1])

\* The responses of the batch of lcore w are in their queue slots.
BatchAnswered(w) ==
    \A k \in 0 .. (BatchCount(w) - 1) :
       wmq[w].resps[(ms.prev_head[w] + k) % WM_QUEUE_CAP] =
          ipv4Gpu(ReqVal(w, ms.prev_head[w] + k))

(***************************************************************************)
(* C22 (worker/master queue protocol), as claimed: with workers that only  *)
(* increase head and keep head - tail <= WM_QUEUE_CAP, the tail of every   *)
(* queue never decreases and never exceeds the head the master has read;   *)
(* when the master has gone through the queues, the requests of the        *)
(* indices from the old tail to the new one are in the GPU buffer, each    *)
(* once and in order, and the master never writes beyond that buffer; when *)
(* the master advances the tail of a queue, the responses of those indices *)
(* are in their slots index & (WM_QUEUE_CAP - 1).                          *)
(***************************************************************************)
C22_QueueProtocol ==
    /\ [](/\ ms.pc # "overrun"
          /\ \A w \in Lcores :
                /\ wmq[w].tail <= ms.new_head[w]
                /\ ms.new_head[w] <= wmq[w].head
                /\ wmq[w].head - wmq[w].tail <= WM_QUEUE_CAP
          /\ ms.pc \in {"check", "gpu"} => BatchCopied
          /\ ms.pc = "publish" => BatchAnswered(MsLcore))
    /\ [][\A w \in Lcores : wmq'[w].tail >= wmq[w].tail]_vars

====
